---- MODULE Spec2Model ----
(***************************************************************************)
(* Code execution engine of se_training: the two test-mode runners         *)
(* (PythonRunner, TypeScriptRunner) and the two script-mode executors      *)
(* (run_python_script, run_typescript_script).                             *)
(*                                                                         *)
(* Text is modelled structurally: a function signature is a sequence of    *)
(* tokens, a test code is a sequence of lines (indent, kind, name), an     *)
(* error message is a record naming the f-string that produced it and the  *)
(* values interpolated into it.  Times are in tenths of a second.          *)
(***************************************************************************)
EXTENDS Integers, Sequences, FiniteSets, TLC

VARIABLES pc, call, dirs, tmpdir, child, result, raised, nCalls, timing,
          request, response, executions, submissions, pending,
          workers, created,
          converted, synthesized, drafts, histfile, histlog, savers, access

\* one call of an entry point
coreVars == <<pc, call, dirs, tmpdir, child, result, raised, nCalls, timing>>
\* the HTTP handlers and the history store
apiVars == <<request, response, executions, submissions, pending>>

\* the pure helpers and the file stores, each exercised by its own
\* specification
libVars == <<converted, synthesized, drafts, histfile, histlog, savers, access>>

vars == <<pc, call, dirs, tmpdir, child, result, raised, nCalls, timing,
          request, response, executions, submissions, pending,
          workers, created,
          converted, synthesized, drafts, histfile, histlog, savers, access>>

Null == "null"

\* Optional values (None / a value) are the empty set / a singleton
None == {}
Some(v) == {v}
The(o) == CHOOSE v \in o : TRUE

(* ------------------------------ bounds -------------------------------- *)

\* number of execute / run_*_script calls made in one behaviour
MaxCalls == 2
\* largest time limit (tenths of a second) a caller passes
MaxLimit == 20

\* calls of create_runner made in one behaviour
MaxCreated == 3

(* ------------------------- program constants -------------------------- *)

\* time_limit_sec + 1.0 : the grace added by the test-mode invokers
GraceDs == 10
\* max(0.1, time_limit_sec) : the floor of the script-mode timeout
MinTimeoutDs == 1

\* float(time_limit or 2.0) : the default limit of a script run
DefaultLimitDs == 20

(* ------------------------------ inputs -------------------------------- *)

RunnerPaths == {"PythonRunner", "TypeScriptRunner"}
ScriptPaths == {"run_python_script", "run_typescript_script"}
Paths == RunnerPaths \cup ScriptPaths

\* time limits a caller can pass (no validation restricts the float)
TimeLimits == {-MaxLimit, 1 - GraceDs, 0, MinTimeoutDs, GraceDs, MaxLimit}

Words == {"def", "function", "const", "export", "solve", "nums", "list", "number"}

\* function_signature samples, as token sequences
SigPython == <<"def", "solve", "(", "nums", ":", "list", ")">>
SigFunction == <<"function", "solve", "(", "nums", ":", "number", ")">>
SigExport == <<"export", "function", "solve", "(", ")">>
SigConst == <<"const", "solve", "=", "(", "nums", ")", "=>">>
SigColon == <<"solve", ":", "(", "nums", ")", "=>", "number">>
SigBare == <<"solve", "(", "nums", ")">>
SigEmpty == << >>
Signatures == {SigPython, SigFunction, SigExport, SigConst, SigColon, SigBare, SigEmpty}

\* one line of test code: its indentation, what it holds, and (for a
\* test-definition marker) the name the regex captures after test_
Line(i, k, n) == [indent |-> i, kind |-> k, name |-> n]
LMarker(i, n) == Line(i, "marker", n)
LAssert(i) == Line(i, "assert", Null)
LStmt(i) == Line(i, "stmt", Null)
LBlank == Line(0, "blank", Null)
LComment(i) == Line(i, "comment", Null)

\* test_code samples
TestTwoBlocks == <<LMarker(0, "a"), LAssert(4), LBlank, LMarker(0, "b"), LAssert(4)>>
TestOneBlock == <<LMarker(0, "a"), LStmt(4), LAssert(4)>>
TestBareAssert == <<LStmt(0), LAssert(0)>>
TestNoContent == <<LComment(0), LStmt(0)>>
TestEmpty == <<LBlank>>
TestEmptyLast == <<LMarker(0, "a")>>
TestEmptyBlocks == <<LMarker(0, "a"), LMarker(0, "b")>>
TestCodes ==
  {TestTwoBlocks, TestOneBlock, TestBareAssert, TestNoContent, TestEmpty, TestEmptyLast,
   TestEmptyBlocks}

Problem(sig, tc, lim) == [function_signature |-> sig, test_code |-> tc, time_limit_sec |-> lim]
NoProblem == [function_signature |-> << >>, test_code |-> << >>, time_limit_sec |-> 0]

(* ------------------------- harness synthesis -------------------------- *)

IsWord(t) == t \in Words

\* positions where  kw \s+ (\w+)  matches, for a keyword among kws
KeywordHits(sig, kws) == {i \in 1..(Len(sig) - 1) : sig[i] \in kws /\ IsWord(sig[i + 1])}

\* positions where  (\w+)\s*[:=]  matches ("=>" begins with "=")
ColonHits(sig) == {i \in 1..(Len(sig) - 1) : IsWord(sig[i]) /\ sig[i + 1] \in {":", "=", "=>"}}

Leftmost(S) == CHOOSE i \in S : \A j \in S : i <= j

\* re.search(r'def\s+(\w+)', sig) : the captured name, or Null
PyName(sig) ==
  IF KeywordHits(sig, {"def"}) # {} THEN sig[Leftmost(KeywordHits(sig, {"def"})) + 1] ELSE Null

\* the three searches of TypeScriptRunner._create_test_file, in order
TsName(sig) ==
  IF KeywordHits(sig, {"function", "const"}) # {}
    THEN sig[Leftmost(KeywordHits(sig, {"function", "const"})) + 1]
  ELSE IF ColonHits(sig) # {} THEN sig[Leftmost(ColonHits(sig))]
  ELSE PyName(sig)

\* _convert_python_to_ts, line by line: an assert becomes a throwing check,
\* a '#' comment a '//' comment, every other line is kept
ConvertLine(l) ==
  [l EXCEPT !.kind = CASE l.kind = "assert" -> "check"
                       [] l.kind = "comment" -> "ts_comment"
                       [] OTHER -> l.kind]

ConvertPythonToTs(body) == [i \in 1..Len(body) |-> ConvertLine(body[i])]

\* _add_test_function: dedent by the first body line's indentation, convert
Dedent(body) ==
  [i \in 1..Len(body) |->
     [body[i] EXCEPT !.indent = IF body[i].indent > body[1].indent
                                 THEN body[i].indent - body[1].indent ELSE 0]]

AddTestFunction(tests, name, body) ==
  Append(tests, [name |-> name, body |-> ConvertPythonToTs(Dedent(body))])

HasMarker(l) == l.kind = "marker"
IsCloser(l) == l.kind \in {"close", "comment"}

\* the state of the scanning loop of _extract_test_functions
ScanInit == [tests |-> << >>, cur |-> << >>, name |-> Null, in_test |-> FALSE, indent |-> 0]

ScanStart(st, l) == [st EXCEPT !.name = l.name, !.cur = << >>, !.in_test = TRUE, !.indent = l.indent]

\* one iteration of the loop over the lines
ScanLine(st, l) ==
  IF HasMarker(l) /\ ~st.in_test /\ l.name # Null THEN ScanStart(st, l)
  ELSE IF ~st.in_test THEN st
  ELSE IF l.kind = "blank" THEN st
  ELSE IF l.indent <= st.indent /\ ~IsCloser(l)
    THEN LET closed == [st EXCEPT !.tests = IF st.name # Null
                                              THEN AddTestFunction(st.tests, st.name, st.cur)
                                              ELSE st.tests,
                                  !.name = Null, !.in_test = FALSE, !.cur = << >>]
         IN IF HasMarker(l) /\ l.name # Null THEN ScanStart(closed, l) ELSE closed
  ELSE [st EXCEPT !.cur = Append(st.cur, l)]

RECURSIVE Scan(_, _)
Scan(st, lines) == IF lines = << >> THEN st ELSE Scan(ScanLine(st, Head(lines)), Tail(lines))

\* _extract_test_functions: the loop over the lines and the last block
ExtractBlocks(test_code) ==
  LET st == Scan(ScanInit, test_code)
  IN IF st.name # Null /\ st.cur # << >>
       THEN AddTestFunction(st.tests, st.name, st.cur) ELSE st.tests

\* variant: the whole-body case is added whenever an assertion line exists
ExtractTestFunctionsAlwaysFallback(test_code) ==
  IF \E i \in 1..Len(test_code) : test_code[i].kind = "assert"
    THEN Append(ExtractBlocks(test_code),
                [name |-> "global_test", body |-> ConvertPythonToTs(test_code)])
    ELSE ExtractBlocks(test_code)

\* _extract_test_functions: the test cases pushed onto testFunctions
\* (the empty sequence stands for '// No tests found')
ExtractTestFunctions(test_code) ==
  LET blocks == ExtractBlocks(test_code)
  IN IF blocks = << >> /\ \E i \in 1..Len(test_code) : test_code[i].kind = "assert"
       THEN <<[name |-> "global_test", body |-> ConvertPythonToTs(test_code)]>>
       ELSE blocks

HarnessError(sig) == [exc |-> "ValueError", text |-> "cannot_extract_name", sig |-> sig]

\* problem = None : reading problem.function_signature raises AttributeError
NullProblem == [is_none |-> TRUE]
NullProblemError == [exc |-> "AttributeError", text |-> "NoneType_has_no_attribute_function_signature"]

\* PythonRunner._create_test_file: the harness text, or the ValueError raised
PyCreateTestFile(problem) ==
  IF problem = NullProblem THEN [ok |-> FALSE, error |-> NullProblemError]
  ELSE IF PyName(problem.function_signature) = Null
    THEN [ok |-> FALSE, error |-> HarnessError(problem.function_signature)]
    ELSE [ok |-> TRUE,
          content |-> [imports |-> PyName(problem.function_signature),
                       alias |-> "solve",
                       tests |-> problem.test_code]]

\* TypeScriptRunner._create_test_file
TsCreateTestFile(problem) ==
  IF problem = NullProblem THEN [ok |-> FALSE, error |-> NullProblemError]
  ELSE IF TsName(problem.function_signature) = Null
    THEN [ok |-> FALSE, error |-> HarnessError(problem.function_signature)]
    ELSE [ok |-> TRUE,
          content |-> [imports |-> TsName(problem.function_signature),
                       tests |-> ExtractTestFunctions(problem.test_code)]]

(* --------------------------- child processes --------------------------- *)

PassLine(name) == [case |-> name, verdict |-> "pass"]
FailLine(name) == [case |-> name, verdict |-> "fail"]
Summary(word) == [case |-> "*", verdict |-> word]

RECURSIVE PassLines(_, _, _)
PassLines(tests, verdicts, i) ==
  IF i > Len(tests) THEN << >>
  ELSE (IF verdicts[i] THEN <<PassLine(tests[i].name)>> ELSE << >>) \o PassLines(tests, verdicts, i + 1)

RECURSIVE FailLines(_, _, _)
FailLines(tests, verdicts, i) ==
  IF i > Len(tests) THEN << >>
  ELSE (IF verdicts[i] THEN << >> ELSE <<FailLine(tests[i].name)>>) \o FailLines(tests, verdicts, i + 1)

\* index of the first failing case, or Len + 1
RECURSIVE FirstFailure(_, _, _)
FirstFailure(n, verdicts, i) ==
  IF i > n THEN n + 1 ELSE IF ~verdicts[i] THEN i ELSE FirstFailure(n, verdicts, i + 1)

\* variant: the loop over testFunctions breaks at the first failing case
TsDriverBreakOnFailure(tests, loads, verdicts) ==
  LET stop == FirstFailure(Len(tests), verdicts, 1)
      last == IF stop > Len(tests) THEN Len(tests) ELSE stop
      ran == [i \in 1..last |-> verdicts[i]]
      shown == [i \in 1..last |-> tests[i]]
  IN IF ~loads
       THEN [returncode |-> 1, stdout |-> << >>, stderr |-> <<Summary("tsx_error")>>,
             started |-> FALSE, ran |-> << >>]
       ELSE [returncode |-> IF stop > Len(tests) THEN 0 ELSE 1,
             stdout |-> PassLines(shown, ran, 1)
                        \o <<Summary(IF stop > Len(tests) THEN "SUCCESS" ELSE "FAILED")>>,
             stderr |-> FailLines(shown, ran, 1) \o FailLines(shown, ran, 1),
             started |-> TRUE,
             ran |-> ran]

\* The driver TypeScriptRunner._create_test_file generates around the test
\* cases: runTest catches per case, the loop visits every case, exit code 0
\* iff failed === 0.  loads = FALSE: tsx could not compile or import
\* solution.ts / test.ts, so the driver never starts and tsx exits 1.
TsDriver(tests, loads, verdicts) ==
  IF ~loads
    THEN [returncode |-> 1, stdout |-> << >>, stderr |-> <<Summary("tsx_error")>>,
          started |-> FALSE, ran |-> << >>]
    ELSE LET fails == FailLines(tests, verdicts, 1)
         IN [returncode |-> IF fails = << >> THEN 0 ELSE 1,
             stdout |-> PassLines(tests, verdicts, 1)
                        \o <<Summary(IF fails = << >> THEN "SUCCESS" ELSE "FAILED")>>,
             stderr |-> fails \o fails,
             started |-> TRUE,
             ran |-> [i \in 1..Len(tests) |-> verdicts[i]]]

\* the test functions pytest collects from test_solution.py
RECURSIVE PytestCollect(_)
PytestCollect(test_code) ==
  IF test_code = << >> THEN << >>
  ELSE (IF HasMarker(Head(test_code)) /\ Head(test_code).indent = 0 /\ Head(test_code).name # Null
          THEN <<[name |-> Head(test_code).name]>> ELSE << >>)
       \o PytestCollect(Tail(test_code))

\* pytest test_solution.py -v --tb=short -x : -x stops the session at the
\* first failing case.  Exit codes: 0 all passed, 1 a case failed,
\* 2 collection error (solution.py or the test code cannot be imported),
\* 5 no test collected.  -v prints one line per case that ran.
Pytest(test_code, loads, verdicts) ==
  LET cases == PytestCollect(test_code)
      n == Len(cases)
      stop == FirstFailure(n, verdicts, 1)
      last == IF stop > n THEN n ELSE stop
  IN IF ~loads
       THEN [returncode |-> 2, stdout |-> <<Summary("collection_error")>>, stderr |-> << >>,
             started |-> FALSE, ran |-> << >>]
     ELSE IF n = 0
       THEN [returncode |-> 5, stdout |-> <<Summary("no_tests_ran")>>, stderr |-> << >>,
             started |-> TRUE, ran |-> << >>]
     ELSE [returncode |-> IF stop > n THEN 0 ELSE 1,
           stdout |-> [i \in 1..last |-> IF verdicts[i] THEN PassLine(cases[i].name)
                                                      ELSE FailLine(cases[i].name)]
                      \o <<Summary(IF stop > n THEN "passed" ELSE "failed")>>,
           stderr |-> << >>,
           started |-> TRUE,
           ran |-> [i \in 1..last |-> verdicts[i]]]

\* a script run directly: it exits with the code the script chose
Script(returncode) ==
  [returncode |-> returncode, stdout |-> <<Summary("out")>>,
   stderr |-> IF returncode = 0 THEN << >> ELSE <<Summary("traceback")>>,
   started |-> TRUE, ran |-> << >>]

(* ------------------------------ messages ------------------------------- *)

\* f"実行時間が制限（{time_limit_sec}秒）を超えました"
TimeoutMsg(limit) == [text |-> "time_limit_exceeded", limit |-> limit]
\* "テストが失敗しました"
TestsFailedMsg == [text |-> "tests_failed"]
\* f"実行エラー: {str(e)}"
ExecErrorMsg(e) == [text |-> "execution_error", detail |-> e]
\* f"テストコード生成エラー: {str(e)}"
HarnessGenMsg(e) == [text |-> "test_code_generation_error", detail |-> e]
\* "tsxが見つかりません。Node.jsとtsxがインストールされていることを確認してください。"
TsxMissingMsg == [text |-> "tsx_not_found_install_nodejs_and_tsx"]
\* "npx/tsx が見つかりません。Node.js と tsx が必要です。"
NpxMissingMsg == [text |-> "npx_tsx_not_found_nodejs_and_tsx_required"]
\* "実行が終了コード0以外で終了しました"
NonZeroExitMsg == [text |-> "exited_with_nonzero_code"]

\* exceptions subprocess.run raises when the child cannot be spawned
SpawnErrors == {"FileNotFoundError", "PermissionError"}

(* ------------------------------ invokers ------------------------------- *)

\* PythonRunner._run_pytest
\* variant: the grace is added twice
RunPytestTimeoutArgTwice(limit) == limit + GraceDs + GraceDs

RunPytestTimeoutArg(limit) == limit + GraceDs

RunPytestCompleted(proc) ==
  IF proc.returncode = 0
    THEN [status |-> "success", error_message |-> None, test_output |-> Some(proc.stdout)]
    ELSE [status |-> "failure", error_message |-> Some(TestsFailedMsg),
          test_output |-> Some(proc.stdout \o proc.stderr)]

\* variant: the message is built from the padded timeout
RunPytestTimedOutPadded(limit) ==
  [status |-> "timeout", error_message |-> Some(TimeoutMsg(limit + GraceDs)), test_output |-> None]

RunPytestTimedOut(limit) ==
  [status |-> "timeout", error_message |-> Some(TimeoutMsg(limit)), test_output |-> None]

RunPytestSpawnError(e) ==
  [status |-> "error", error_message |-> Some(ExecErrorMsg(e)), test_output |-> None]

\* TypeScriptRunner._run_typescript
RunTypescriptTimeoutArg(limit) == limit + GraceDs

RunTypescriptCompleted(proc) ==
  IF proc.returncode = 0
    THEN [status |-> "success", error_message |-> None, test_output |-> Some(proc.stdout)]
    ELSE [status |-> "failure", error_message |-> Some(TestsFailedMsg),
          test_output |-> Some(proc.stdout \o proc.stderr)]

RunTypescriptTimedOut(limit) ==
  [status |-> "timeout", error_message |-> Some(TimeoutMsg(limit)), test_output |-> None]

RunTypescriptSpawnError(e) ==
  IF e = "FileNotFoundError"
    THEN [status |-> "error", error_message |-> Some(TsxMissingMsg), test_output |-> None]
    ELSE [status |-> "error", error_message |-> Some(ExecErrorMsg(e)), test_output |-> None]

\* the dictionary execute builds from the invoker's: result.get(...) per key
ExecuteResult(r) ==
  [result |-> r.status, error_message |-> r.error_message, test_output |-> r.test_output]

\* TypeScriptRunner.execute: the except around _create_test_file
TsHarnessErrorResult(e) ==
  [result |-> "error", error_message |-> Some(HarnessGenMsg(e)), test_output |-> None]

\* run_python_script
PythonScriptTimeoutArg(limit) == IF limit > MinTimeoutDs THEN limit ELSE MinTimeoutDs

\* variant: the exit code is not copied into the result
PythonScriptCompletedNoExitCode(proc) ==
  [status |-> IF proc.returncode = 0 THEN "success" ELSE "error",
   exit_code |-> None,
   stdout |-> Some(proc.stdout),
   stderr |-> Some(proc.stderr),
   error_message |-> IF proc.returncode = 0 THEN None ELSE Some(NonZeroExitMsg)]

PythonScriptCompleted(proc) ==
  [status |-> IF proc.returncode = 0 THEN "success" ELSE "error",
   exit_code |-> Some(proc.returncode),
   stdout |-> Some(proc.stdout),
   stderr |-> Some(proc.stderr),
   error_message |-> IF proc.returncode = 0 THEN None ELSE Some(NonZeroExitMsg)]

PythonScriptTimedOut(limit) ==
  [status |-> "timeout", exit_code |-> None, stdout |-> None, stderr |-> None,
   error_message |-> Some(TimeoutMsg(limit))]

PythonScriptSpawnError(e) ==
  [status |-> "error", exit_code |-> None, stdout |-> None, stderr |-> None,
   error_message |-> Some(ExecErrorMsg(e))]

\* run_typescript_script
TypescriptScriptTimeoutArg(limit) == IF limit > MinTimeoutDs THEN limit ELSE MinTimeoutDs

\* variant: a non-zero exit code is classified like a failed test run
TypescriptScriptCompletedAsFailure(proc) ==
  [status |-> IF proc.returncode = 0 THEN "success" ELSE "failure",
   exit_code |-> Some(proc.returncode),
   stdout |-> Some(proc.stdout),
   stderr |-> Some(proc.stderr),
   error_message |-> IF proc.returncode = 0 THEN None ELSE Some(NonZeroExitMsg)]

TypescriptScriptCompleted(proc) ==
  [status |-> IF proc.returncode = 0 THEN "success" ELSE "error",
   exit_code |-> Some(proc.returncode),
   stdout |-> Some(proc.stdout),
   stderr |-> Some(proc.stderr),
   error_message |-> IF proc.returncode = 0 THEN None ELSE Some(NonZeroExitMsg)]

TypescriptScriptTimedOut(limit) ==
  [status |-> "timeout", exit_code |-> None, stdout |-> None, stderr |-> None,
   error_message |-> Some(TimeoutMsg(limit))]

TypescriptScriptSpawnError(e) ==
  IF e = "FileNotFoundError"
    THEN [status |-> "error", exit_code |-> None, stdout |-> None, stderr |-> None,
          error_message |-> Some(NpxMissingMsg)]
    ELSE [status |-> "error", exit_code |-> None, stdout |-> None, stderr |-> None,
          error_message |-> Some(ExecErrorMsg(e))]

\* dispatch on the path of the call
TimeoutArg(path, limit) ==
  CASE path = "PythonRunner" -> RunPytestTimeoutArg(limit)
    [] path = "TypeScriptRunner" -> RunTypescriptTimeoutArg(limit)
    [] path = "run_python_script" -> PythonScriptTimeoutArg(limit)
    [] path = "run_typescript_script" -> TypescriptScriptTimeoutArg(limit)

Completed(path, proc) ==
  CASE path = "PythonRunner" -> ExecuteResult(RunPytestCompleted(proc))
    [] path = "TypeScriptRunner" -> ExecuteResult(RunTypescriptCompleted(proc))
    [] path = "run_python_script" -> PythonScriptCompleted(proc)
    [] path = "run_typescript_script" -> TypescriptScriptCompleted(proc)

TimedOut(path, limit) ==
  CASE path = "PythonRunner" -> ExecuteResult(RunPytestTimedOut(limit))
    [] path = "TypeScriptRunner" -> ExecuteResult(RunTypescriptTimedOut(limit))
    [] path = "run_python_script" -> PythonScriptTimedOut(limit)
    [] path = "run_typescript_script" -> TypescriptScriptTimedOut(limit)

SpawnError(path, e) ==
  CASE path = "PythonRunner" -> ExecuteResult(RunPytestSpawnError(e))
    [] path = "TypeScriptRunner" -> ExecuteResult(RunTypescriptSpawnError(e))
    [] path = "run_python_script" -> PythonScriptSpawnError(e)
    [] path = "run_typescript_script" -> TypescriptScriptSpawnError(e)

\* the fields of a result as its consumers read them: result["result"] or
\* result["status"], and result.get(key) for the rest
StatusOf(res) == IF "result" \in DOMAIN res THEN res.result ELSE res.status
Get(res, key) == IF key \in DOMAIN res THEN res[key] ELSE None

(* ------------------------------ workspace ------------------------------ *)

EmptyDir == [f \in {} |-> Null]

\* tempfile.TemporaryDirectory().__enter__ : a fresh, uniquely named directory
MakeTempDir(ds, d) == [x \in DOMAIN ds \cup {d} |-> IF x \in DOMAIN ds THEN ds[x] ELSE EmptyDir]

\* Path.write_text
WriteText(ds, d, name, content) == [ds EXCEPT ![d] = (name :> content) @@ ds[d]]

\* variant: the directory is removed by a statement before each return, not
\* by a context manager, so an exception leaves it behind
ExitWorkspaceOnReturnOnly(ds, d, how) ==
  IF how = "raise" THEN ds ELSE [x \in DOMAIN ds \ {d} |-> ds[x]]

\* the end of the with block, left by a return ("return") or by a
\* propagating exception ("raise"): the directory and its files are removed
ExitWorkspace(ds, d, how) == [x \in DOMAIN ds \ {d} |-> ds[x]]

UserCode == "user_code"
PackageJson == "package_json"

\* the files a call writes before any harness is synthesized
WriteSubmissionFiles(ds, d, path) ==
  CASE path = "PythonRunner" -> WriteText(ds, d, "solution.py", UserCode)
    [] path = "TypeScriptRunner" ->
         WriteText(WriteText(ds, d, "package.json", PackageJson), d, "solution.ts", UserCode)
    [] path = "run_python_script" -> WriteText(ds, d, "main.py", UserCode)
    [] path = "run_typescript_script" ->
         WriteText(WriteText(ds, d, "package.json", PackageJson), d, "main.ts", UserCode)

\* variant: the runners hand the submission itself to the toolchain
CommandRunsSubmission(path) ==
  CASE path = "PythonRunner" -> <<"pytest", "solution.py", "-v", "--tb=short", "-x">>
    [] path = "TypeScriptRunner" -> <<"npx", "--yes", "tsx", "solution.ts">>
    [] path = "run_python_script" -> <<"python", "main.py">>
    [] path = "run_typescript_script" -> <<"npx", "--yes", "tsx", "main.ts">>

\* the command line handed to subprocess.run
Command(path) ==
  CASE path = "PythonRunner" -> <<"pytest", "test_solution.py", "-v", "--tb=short", "-x">>
    [] path = "TypeScriptRunner" -> <<"npx", "--yes", "tsx", "test.ts">>
    [] path = "run_python_script" -> <<"python", "main.py">>
    [] path = "run_typescript_script" -> <<"npx", "--yes", "tsx", "main.ts">>

(* ---------------------------- state machine ---------------------------- *)

NoCall == [path |-> "none"]
NoChild == [state |-> "none"]

Limit(c) == IF c.path \in RunnerPaths THEN c.problem.time_limit_sec ELSE c.time_limit_sec

\* concurrent callers of the entry points (threads)
Workers == {"w1", "w2"}
IdleWorker == [pc |-> "idle"]

\* the drafts file (its JSON objects in order), the drafts save_draft was
\* given so far, and what the last get_draft was asked and answered
NoDrafts == [file |-> << >>, saved |-> << >>, got |-> None]

\* data/executions.json and data/submissions.json
HistFiles == {"executions.json", "submissions.json"}

\* a history file: whether its text parses, and the records it holds
EmptyFile == [parsable |-> TRUE, records |-> << >>]

\* what happened to the history files so far: how many saves were started,
\* the records whose save returned, whether a file's text was ever damaged,
\* and whether two saves ever ran at the same time
NoSaves == [started |-> 0, returned |-> {}, damaged |-> FALSE, overlapped |-> FALSE]

InProgress == pc \in {"entered", "written", "ready", "running"}

\* the clock: what time.time() - start is when a result is built, and the
\* execution_time_sec the result carries
NoTiming == [elapsed |-> 0, execution_time_sec |-> None]

\* execution_time = time.time() - start_time, put into the result
ElapsedTime(ds) == [elapsed |-> ds, execution_time_sec |-> Some(ds)]

\* TypeScriptRunner.execute, except branch around _create_test_file:
\* "execution_time_sec": 0
TsHarnessErrorTime(ds) == [elapsed |-> ds, execution_time_sec |-> Some(0)]

\* the shortest time a call takes from its first statement to the point
\* where it builds a result: one clock tick
SetupDs == MinTimeoutDs

\* the later of two points on the clock
Later(a, b) == IF a > b THEN a ELSE b

Init ==
  /\ pc = "idle"
  /\ call = NoCall
  /\ dirs = [x \in {} |-> EmptyDir]
  /\ tmpdir = 0
  /\ child = NoChild
  /\ result = None
  /\ raised = None
  /\ nCalls = 0
  /\ timing = NoTiming
  /\ request = None
  /\ response = None
  /\ executions = << >>
  /\ submissions = << >>
  /\ pending = FALSE
  /\ workers = [w \in Workers |-> IdleWorker]
  /\ created = << >>
  /\ converted = None
  /\ synthesized = << >>
  /\ drafts = NoDrafts
  /\ histfile = [f \in HistFiles |-> EmptyFile]
  /\ histlog = NoSaves
  /\ savers = [w \in Workers |-> IdleWorker]
  /\ access = None

\* the first statements of every entry point: the with block is entered
Enter(c) ==
  /\ ~InProgress
  /\ nCalls < MaxCalls
  /\ pc' = "entered"
  /\ call' = c
  /\ nCalls' = nCalls + 1
  /\ tmpdir' = nCalls + 1
  /\ dirs' = MakeTempDir(dirs, nCalls + 1)
  /\ child' = NoChild
  /\ result' = None
  /\ raised' = None
  /\ timing' = NoTiming

\* runner.execute(problem, code, mode), called directly
EnterExecute(path, problem, mode) ==
  /\ request = None
  /\ Enter([path |-> path, problem |-> problem, mode |-> mode])
  /\ UNCHANGED <<apiVars, workers, created, libVars>>

\* run_python_script / run_typescript_script(code=, stdin=, time_limit_sec=),
\* called directly
EnterScript(path, limit) ==
  /\ request = None
  /\ Enter([path |-> path, time_limit_sec |-> limit])
  /\ UNCHANGED <<apiVars, workers, created, libVars>>

WriteSubmission ==
  /\ pc = "entered"
  /\ dirs' = WriteSubmissionFiles(dirs, tmpdir, call.path)
  /\ pc' = "written"
  /\ UNCHANGED <<call, tmpdir, child, result, raised, nCalls, timing>>
  /\ UNCHANGED <<apiVars, workers, created, libVars>>

\* PythonRunner.execute: _create_test_file is called outside any try, so its
\* ValueError leaves execute through the with block
PySynthesize ==
  /\ pc = "written"
  /\ call.path = "PythonRunner"
  /\ LET h == PyCreateTestFile(call.problem)
     IN IF h.ok
          THEN /\ dirs' = WriteText(dirs, tmpdir, "test_solution.py", h.content)
               /\ pc' = "ready"
               /\ UNCHANGED <<result, raised>>
          ELSE /\ dirs' = ExitWorkspace(dirs, tmpdir, "raise")
               /\ pc' = "raised"
               /\ raised' = Some(h.error)
               /\ UNCHANGED result
  /\ UNCHANGED <<call, tmpdir, child, nCalls, timing>>
  /\ UNCHANGED <<apiVars, workers, created, libVars>>

\* TypeScriptRunner.execute: _create_test_file is inside a try whose except
\* returns an error result
TsSynthesize ==
  /\ pc = "written"
  /\ call.path = "TypeScriptRunner"
  /\ LET h == TsCreateTestFile(call.problem)
     IN IF h.ok
          THEN /\ dirs' = WriteText(dirs, tmpdir, "test.ts", h.content)
               /\ pc' = "ready"
               /\ UNCHANGED <<result, timing>>
          ELSE /\ dirs' = ExitWorkspace(dirs, tmpdir, "return")
               /\ pc' = "returned"
               /\ result' = Some(TsHarnessErrorResult(h.error))
               /\ timing' = TsHarnessErrorTime(SetupDs)
  /\ UNCHANGED <<call, tmpdir, child, raised, nCalls>>
  /\ UNCHANGED <<apiVars, workers, created, libVars>>

CanSpawn ==
  \/ pc = "ready" /\ call.path \in RunnerPaths
  \/ pc = "written" /\ call.path \in ScriptPaths

\* subprocess.run starts the child in the workspace
SpawnChild ==
  /\ CanSpawn
  /\ child' = [state |-> "running", cmd |-> Command(call.path), cwd |-> tmpdir,
               timeout |-> TimeoutArg(call.path, Limit(call))]
  /\ pc' = "running"
  /\ UNCHANGED <<call, dirs, tmpdir, result, raised, nCalls, timing>>
  /\ UNCHANGED <<apiVars, workers, created, libVars>>

\* subprocess.run raises before any child runs; the invoker's except clauses
\* turn the exception into a result and the call returns
SpawnFails(e) ==
  /\ CanSpawn
  /\ child' = [state |-> "not_spawned", error |-> e]
  /\ result' = Some(SpawnError(call.path, e))
  /\ timing' = ElapsedTime(SetupDs)
  /\ dirs' = ExitWorkspace(dirs, tmpdir, "return")
  /\ pc' = "returned"
  /\ UNCHANGED <<call, tmpdir, raised, nCalls>>
  /\ UNCHANGED <<apiVars, workers, created, libVars>>

\* what the child does when it ends by itself
Outcomes ==
  CASE call.path = "PythonRunner" ->
         LET tc == dirs[tmpdir]["test_solution.py"].tests
         IN {Pytest(tc, l, v) : l \in BOOLEAN, v \in [1..Len(PytestCollect(tc)) -> BOOLEAN]}
    [] call.path = "TypeScriptRunner" ->
         LET ts == dirs[tmpdir]["test.ts"].tests
         IN {TsDriver(ts, l, v) : l \in BOOLEAN, v \in [1..Len(ts) -> BOOLEAN]}
    [] OTHER -> {Script(rc) : rc \in {0, 1}}

\* the child ends before the timeout; subprocess.run returns its
\* CompletedProcess, the result is built and the call returns
ChildExits ==
  /\ pc = "running"
  /\ \E proc \in Outcomes :
       /\ child' = [child EXCEPT !.state = "exited"] @@ [proc |-> proc]
       /\ result' = Some(Completed(call.path, proc))
  /\ \E ds \in {SetupDs, Later(SetupDs, child.timeout)} : timing' = ElapsedTime(ds)
  /\ dirs' = ExitWorkspace(dirs, tmpdir, "return")
  /\ pc' = "returned"
  /\ UNCHANGED <<call, tmpdir, raised, nCalls>>
  /\ UNCHANGED <<apiVars, workers, created, libVars>>

\* variant: after a timeout the command is started once more
ChildTimesOutRetry ==
  /\ pc = "running"
  /\ child' = [child EXCEPT !.state = "killed"]
  /\ pc' = IF call.path \in RunnerPaths THEN "ready" ELSE "written"
  /\ UNCHANGED <<call, dirs, tmpdir, result, raised, nCalls, timing>>
  /\ UNCHANGED <<apiVars, workers, created, libVars>>

\* the child is still running when the timeout passed to subprocess.run
\* elapses: subprocess.run kills it and raises TimeoutExpired
ChildTimesOut ==
  /\ pc = "running"
  /\ child' = [child EXCEPT !.state = "killed"]
  /\ result' = Some(TimedOut(call.path, Limit(call)))
  /\ timing' = ElapsedTime(Later(0, child.timeout) + SetupDs)
  /\ dirs' = ExitWorkspace(dirs, tmpdir, "return")
  /\ pc' = "returned"
  /\ UNCHANGED <<call, tmpdir, raised, nCalls>>
  /\ UNCHANGED <<apiVars, workers, created, libVars>>

Problems == {Problem(sig, tc, lim) : sig \in Signatures, tc \in TestCodes, lim \in TimeLimits}

\* the mode argument of execute; a null problem is passed in script mode only
Modes == {"coding_test", "script"}

Next ==
  \/ \E path \in RunnerPaths, problem \in Problems, mode \in Modes :
       EnterExecute(path, problem, mode)
  \/ \E path \in RunnerPaths : EnterExecute(path, NullProblem, "script")
  \/ \E path \in ScriptPaths, limit \in TimeLimits : EnterScript(path, limit)
  \/ WriteSubmission
  \/ PySynthesize
  \/ TsSynthesize
  \/ SpawnChild
  \/ \E e \in SpawnErrors : SpawnFails(e)
  \/ ChildExits
  \/ ChildTimesOut

Spec == Init /\ [][Next]_vars

(* ----------------------------- API layer ------------------------------ *)

\* a language identifier as sent by a client: the word it spells, whether
\* it has upper-case letters, whether it is surrounded by white space
LangId(base, upper, padded) == [base |-> base, upper |-> upper, padded |-> padded]
Plain(base) == LangId(base, FALSE, FALSE)
LanguageInputs ==
  {Plain("python"), Plain("typescript"), Plain("ts"), Plain("ruby"),
   LangId("python", TRUE, FALSE), LangId("typescript", FALSE, TRUE),
   LangId("ts", TRUE, TRUE)}

\* str.lower() and str.strip()
Lower(l) == [l EXCEPT !.upper = FALSE]
Strip(l) == [l EXCEPT !.padded = FALSE]

\* class Language(str, Enum)
LanguageEnum == {"python", "typescript"}

\* Language(raw): the member with that value, or Null for the ValueError
LanguageOf(raw) == IF \E v \in LanguageEnum : raw = Plain(v) THEN raw.base ELSE Null

\* run_code: lower, strip, "ts" -> "typescript", Language(...)
RunCodeLanguage(raw) ==
  LET lang_raw == Strip(Lower(raw))
  IN LanguageOf(IF lang_raw = Plain("ts") THEN Plain("typescript") ELSE lang_raw)

\* submit_code: Language(request.language.lower())
SubmitLanguage(raw) == LanguageOf(Lower(raw))

\* the problem catalog read by load_problem
CatalogIds == {"ct-py", "ct-both", "ct-ts"}
ProblemIds == CatalogIds \cup {"ct-missing"}

Catalog(id) ==
  CASE id = "ct-py" ->
         [problem |-> Problem(SigPython, TestTwoBlocks, GraceDs), supported_languages |-> {}]
    [] id = "ct-both" ->
         [problem |-> Problem(SigFunction, TestOneBlock, GraceDs),
          supported_languages |-> {"python", "typescript"}]
    [] id = "ct-ts" ->
         [problem |-> Problem(SigConst, TestBareAssert, GraceDs),
          supported_languages |-> {"typescript"}]

\* load_problem: the problem, or None when no such file exists
LoadProblem(id) == IF id \in CatalogIds THEN Some(Catalog(id)) ELSE None

\* variant: the list stored in the problem is not consulted
GetSupportedLanguagesAll(entry) == LanguageEnum

\* Problem.get_supported_languages: None or an empty list mean Python only
GetSupportedLanguages(entry) ==
  IF entry.supported_languages = {} THEN {"python"} ELSE entry.supported_languages

\* variant: only the else branch of create_runner raises; typescript falls
\* into the first branch
CreateRunnerAlwaysPython(language) ==
  IF language \in {"python", "typescript"} THEN [ok |-> TRUE, class |-> "PythonRunner"]
  ELSE [ok |-> FALSE, error |-> [exc |-> "ValueError", text |-> "unsupported_language"]]

\* create_runner
CreateRunner(language) ==
  IF language = "python" THEN [ok |-> TRUE, class |-> "PythonRunner"]
  ELSE IF language = "typescript" THEN [ok |-> TRUE, class |-> "TypeScriptRunner"]
  ELSE [ok |-> FALSE, error |-> [exc |-> "ValueError", text |-> "unsupported_language"]]

\* Python's  a or b  on an optional number: None and 0 are falsy
Falsy(o) == o = None \/ o = Some(0)
Or(a, b) == IF Falsy(a) THEN b ELSE a

\* run_code: the time limit handed to the script executor
RunCodeTimeLimit(override, entry) ==
  LET time_limit == IF entry = None THEN override
                    ELSE Or(override, Some(The(entry).problem.time_limit_sec))
  IN The(Or(time_limit, Some(DefaultLimitDs)))

\* an HTTPException; language is the identifier its detail quotes
Rejection(code, detail, language) ==
  [ok |-> FALSE, code |-> code, detail |-> detail, language |-> language]

\* run_code up to the call of the executor: the call to make, or the
\* HTTPException raised
RunCodeValidate(req) ==
  LET lang == RunCodeLanguage(req.language)
      entry == IF req.problem_id = None THEN None ELSE LoadProblem(The(req.problem_id))
  IN IF lang = Null THEN Rejection(400, "unsupported_language", req.language)
     ELSE IF req.problem_id # None /\ entry = None
       THEN Rejection(404, "problem_not_found", Plain(Null))
     ELSE IF entry # None /\ lang \notin GetSupportedLanguages(The(entry))
       THEN Rejection(400, "language_not_supported_by_problem", Plain(lang))
     ELSE [ok |-> TRUE, lang |-> lang,
           call |-> [path |-> IF lang = "python" THEN "run_python_script"
                              ELSE "run_typescript_script",
                     time_limit_sec |-> RunCodeTimeLimit(req.time_limit_sec, entry)]]

\* submit_code up to runner.execute
SubmitValidate(req) ==
  LET entry == LoadProblem(The(req.problem_id))
      lang == SubmitLanguage(req.language)
  IN IF entry = None THEN Rejection(404, "problem_not_found", Plain(Null))
     ELSE IF lang = Null THEN Rejection(400, "unsupported_language", req.language)
     ELSE IF lang \notin GetSupportedLanguages(The(entry))
       THEN Rejection(400, "language_not_supported_by_problem", Plain(lang))
     ELSE [ok |-> TRUE, lang |-> lang,
           call |-> [path |-> CreateRunner(lang).class,
                     problem |-> The(entry).problem,
                     mode |-> "coding_test"]]

RunRequests ==
  {[language |-> l, problem_id |-> p, time_limit_sec |-> t] :
     l \in LanguageInputs,
     p \in {None} \cup {Some(i) : i \in ProblemIds},
     t \in {None, Some(0), Some(MinTimeoutDs + GraceDs)}}

SubmitRequests ==
  {[language |-> l, problem_id |-> Some(p), time_limit_sec |-> None] :
     l \in LanguageInputs, p \in ProblemIds}

\* what the client receives: the status code and, of the body, the detail
\* of an error and the language identifier the body carries
HttpResponse(handler, language, code, detail) ==
  [handler |-> handler, language |-> language, code |-> code, detail |-> detail]

\* a request reaches the server and waits for the event loop (pending: at
\* least one request is waiting)
Arrive ==
  /\ ~pending
  /\ pending' = TRUE
  /\ UNCHANGED <<coreVars, request, response, executions, submissions, workers, created, libVars>>

\* The handlers are coroutines with no await inside: the event loop runs
\* one from its first statement to its return before it starts another.
LoopFree == request = None /\ ~InProgress

\* the event loop takes a waiting request and runs the handler on it up to
\* the point where the handler raises or enters the executor / the runner
Handle(handler, req, v) ==
  /\ pending
  /\ pending' = FALSE
  /\ IF v.ok
       THEN /\ Enter(v.call)
            /\ request' = Some([handler |-> handler, request |-> req, lang |-> v.lang])
            /\ response' = None
       ELSE /\ response' = Some(HttpResponse(handler, v.language, v.code, v.detail))
            /\ UNCHANGED <<coreVars, request>>
  /\ UNCHANGED <<executions, submissions, workers, created, libVars>>

\* POST /api/executions/run
RunCode(req) ==
  /\ LoopFree
  /\ Handle("run_code", req, RunCodeValidate(req))

\* POST /api/submissions/submit
SubmitCode(req) ==
  /\ LoopFree
  /\ Handle("submit_code", req, SubmitValidate(req))

Handling(handler) == request # None /\ The(request).handler = handler

\* run_code after the executor returned: the Execution is built and saved
RunCodeFinish ==
  /\ Handling("run_code")
  /\ pc = "returned"
  /\ executions' = Append(executions,
       [execution_id |-> Len(executions) + 1, status |-> The(result).status])
  /\ response' = Some(HttpResponse("run_code", Plain(The(request).lang), 200, "ok"))
  /\ request' = None
  /\ UNCHANGED <<coreVars, submissions, pending, workers, created, libVars>>

\* submit_code after runner.execute returned: the Submission is built and saved
SubmitFinish ==
  /\ Handling("submit_code")
  /\ pc = "returned"
  /\ submissions' = Append(submissions,
       [result |-> The(result).result])
  /\ response' = Some(HttpResponse("submit_code", Plain(Null), 200, "ok"))
  /\ request' = None
  /\ UNCHANGED <<coreVars, executions, pending, workers, created, libVars>>

\* runner.execute raised: the exception leaves submit_code and the server
\* answers 500
SubmitCrash ==
  /\ Handling("submit_code")
  /\ pc = "raised"
  /\ response' = Some(HttpResponse("submit_code", Plain(Null), 500, "internal_server_error"))
  /\ request' = None
  /\ UNCHANGED <<coreVars, executions, submissions, pending, workers, created, libVars>>

NextApi ==
  \/ Arrive
  \/ \E req \in RunRequests : RunCode(req)
  \/ \E req \in SubmitRequests : SubmitCode(req)
  \/ WriteSubmission
  \/ PySynthesize
  \/ TsSynthesize
  \/ SpawnChild
  \/ \E e \in SpawnErrors : SpawnFails(e)
  \/ ChildExits
  \/ ChildTimesOut
  \/ RunCodeFinish
  \/ SubmitFinish
  \/ SubmitCrash

SpecApi == Init /\ [][NextApi]_vars

(* --------------------------- runner factory --------------------------- *)

\* identifiers handed to create_runner
FactoryInputs == {"python", "typescript", "ts", "ruby", "PYTHON"}

\* PythonRunner() / TypeScriptRunner(): the n-th object constructed; the
\* classes define no __init__ and no attribute, so the object has no fields
NewInstance(class, n) == [class |-> class, instance |-> n, fields |-> {}]

\* one call of create_runner: what it was given and what came back
CallCreateRunner(language) ==
  /\ Len(created) < MaxCreated
  /\ LET r == CreateRunner(language)
     IN created' = Append(created,
          IF r.ok
            THEN [language |-> language, ok |-> TRUE,
                  runner |-> NewInstance(r.class, Len(created) + 1)]
            ELSE [language |-> language, ok |-> FALSE, error |-> r.error])
  /\ UNCHANGED <<coreVars, apiVars, workers, libVars>>

NextFactory == \E language \in FactoryInputs : CallCreateRunner(language)

SpecFactory == Init /\ [][NextFactory]_vars

(* ------------------------ concurrent executions ------------------------ *)

\* two submissions that differ
Codes == {"code_a", "code_b"}

\* two problems whose harnesses differ
ConcProblems == {Problem(SigPython, TestOneBlock, GraceDs), Problem(SigFunction, TestTwoBlocks, GraceDs)}

\* what one execution is asked to run
ConcRequests ==
  {[path |-> p, code |-> c, problem |-> pr] : p \in RunnerPaths, c \in Codes, pr \in ConcProblems}
    \cup {[path |-> p, code |-> c, problem |-> NullProblem] : p \in ScriptPaths, c \in Codes}

\* variant: every execution works in one fixed directory
FreshDirFixed(ds) == 1

\* tempfile.mkdtemp: a name that no existing directory has
FreshDir(ds) == CHOOSE d \in 1..(Cardinality(DOMAIN ds) + 1) :
                  d \notin DOMAIN ds /\ \A e \in 1..(d - 1) : e \in DOMAIN ds

\* the submission file of the path, holding the code of the request
SubmissionName(path) ==
  CASE path = "PythonRunner" -> "solution.py"
    [] path = "TypeScriptRunner" -> "solution.ts"
    [] path = "run_python_script" -> "main.py"
    [] path = "run_typescript_script" -> "main.ts"

HarnessName(path) == IF path = "PythonRunner" THEN "test_solution.py" ELSE "test.ts"

\* the harness of a request that has one
HarnessOf(req) ==
  IF req.path = "PythonRunner" THEN PyCreateTestFile(req.problem)
  ELSE TsCreateTestFile(req.problem)

\* the files the child opens: the harness imports the submission
FilesRead(path) ==
  IF path \in RunnerPaths THEN {SubmissionName(path), HarnessName(path)}
  ELSE {SubmissionName(path)}

\* what the child prints is produced from the files it loaded
Ran(loaded) == [ran |-> loaded]

Worker(w) == workers[w]

ConcUnchanged == UNCHANGED <<pc, call, tmpdir, child, result, raised, nCalls, timing, apiVars, created, libVars>>

\* with tempfile.TemporaryDirectory() as tmpdir
ConcEnter(w, req) ==
  /\ Worker(w).pc = "idle"
  /\ LET d == FreshDir(dirs)
     IN /\ dirs' = MakeTempDir(dirs, d)
        /\ workers' = [workers EXCEPT ![w] = [pc |-> "entered", req |-> req, dir |-> d]]
  /\ ConcUnchanged

\* solution_file.write_text(code) / main_file.write_text(code)
ConcWrite(w) ==
  /\ Worker(w).pc = "entered"
  /\ Worker(w).dir \in DOMAIN dirs
  /\ dirs' = WriteText(dirs, Worker(w).dir, SubmissionName(Worker(w).req.path), Worker(w).req.code)
  /\ workers' = [workers EXCEPT ![w].pc =
       IF Worker(w).req.path \in RunnerPaths THEN "written" ELSE "ready"]
  /\ ConcUnchanged

\* test_file.write_text(test_content); a harness that cannot be built ends
\* the execution and the with block removes the directory
ConcSynthesize(w) ==
  /\ Worker(w).pc = "written"
  /\ Worker(w).dir \in DOMAIN dirs
  /\ LET h == HarnessOf(Worker(w).req)
     IN IF h.ok
          THEN /\ dirs' = WriteText(dirs, Worker(w).dir, HarnessName(Worker(w).req.path), h.content)
               /\ workers' = [workers EXCEPT ![w].pc = "ready"]
          ELSE /\ dirs' = ExitWorkspace(dirs, Worker(w).dir, "raise")
               /\ workers' = [workers EXCEPT ![w].pc = "failed"]
  /\ ConcUnchanged

\* subprocess.run(..., cwd=tmpdir): the child starts and loads the files
\* named on its command line from its working directory
ConcChildLoads(w) ==
  /\ Worker(w).pc = "ready"
  /\ Worker(w).dir \in DOMAIN dirs
  /\ FilesRead(Worker(w).req.path) \subseteq DOMAIN dirs[Worker(w).dir]
  /\ workers' = [workers EXCEPT ![w] =
       [pc |-> "running", req |-> Worker(w).req, dir |-> Worker(w).dir,
        loaded |-> [f \in FilesRead(Worker(w).req.path) |-> dirs[Worker(w).dir][f]]]]
  /\ UNCHANGED dirs
  /\ ConcUnchanged

\* the child ends, its output becomes the result, the with block removes
\* the directory
ConcChildExits(w) ==
  /\ Worker(w).pc = "running"
  /\ dirs' = ExitWorkspace(dirs, Worker(w).dir, "return")
  /\ workers' = [workers EXCEPT ![w] =
       [pc |-> "done", req |-> Worker(w).req, dir |-> Worker(w).dir,
        loaded |-> Worker(w).loaded, output |-> Ran(Worker(w).loaded)]]
  /\ ConcUnchanged

NextConc ==
  \E w \in Workers :
    \/ \E req \in ConcRequests : ConcEnter(w, req)
    \/ ConcWrite(w)
    \/ ConcSynthesize(w)
    \/ ConcChildLoads(w)
    \/ ConcChildExits(w)

SpecConc == Init /\ [][NextConc]_vars

(* ---------------------- assertion rewriting, by token ------------------ *)

\* Test code as the white-space separated tokens of its text; NL is the
\* line break.
NL == "\n"

LineEq == <<"assert", "solve", "==", "B">>
LineNe == <<"assert", "solve", "!=", "B">>
LineTruthy == <<"assert", "solve">>
LineGe == <<"assert", "solve", ">=", "B">>
LineEqLiteral == <<"assert", "A", "==", "True">>
LineIsNone == <<"assert", "A", "is", "None">>
LineEqComment == <<"assert", "A", "==", "B", "#", "note">>
LineNeCommentEq == <<"assert", "A", "!=", "B", "#", "A", "==", "B">>
LineEqMessage == <<"assert", "A", "==", "B", ",", "assert", "failed">>
LineStmt == <<"x", "=", "False">>
LineSamples ==
  {LineEq, LineNe, LineTruthy, LineGe, LineEqLiteral, LineIsNone, LineEqComment,
   LineNeCommentEq, LineEqMessage, LineStmt}

\* test bodies of one or two lines
BodySamples == LineSamples \cup {a \o <<NL>> \o b : a \in LineSamples, b \in LineSamples}

FuncNames == {"solve", "two_sum"}

\* the end of the line that holds position i: the position of its line
\* break, or one past the end of the code
LineEnd(code, i) ==
  IF \E k \in i..Len(code) : code[k] = NL
    THEN Leftmost({k \in i..Len(code) : code[k] = NL})
    ELSE Len(code) + 1

\* (\s*#.*)?$ tried where a lazy group stops at position e (the last token
\* of the group): the position one past the match
TailEnd(code, e) ==
  LET le == LineEnd(code, e)
      rest == {q \in le..Len(code) : code[q] # NL}
  IN IF e + 1 <= Len(code) /\ code[e + 1] = "#" THEN le
     ELSE IF rest # {} /\ code[Leftmost(rest)] = "#" THEN LineEnd(code, Leftmost(rest))
     ELSE le

\* the last token of a lazy group (.+?) that starts at b and is followed by
\* (\s*#.*)?$ : it stops before the first '#' of the line, or at the line end
LazyLast(code, b) ==
  LET hashes == {k \in (b + 1)..(LineEnd(code, b) - 1) : code[k] = "#"}
  IN IF hashes # {} THEN Leftmost(hashes) - 1 ELSE LineEnd(code, b) - 1

\* the positions of op at which  assert\s+(.+?)\s*op\s*(.+?)  can split the
\* line when the match starts at the assert at i
OpSplits(code, i, op) ==
  {j \in (i + 2)..(LineEnd(code, i) - 2) : code[j] = op}

StartsAssert(code, i) ==
  /\ code[i] = "assert"
  /\ i + 1 <= Len(code)
  /\ code[i + 1] # NL

\* assert\s+(.+?)\s*op\s*(.+?)(\s*#.*)?$ matches at i
MatchesOp(code, i, op) == StartsAssert(code, i) /\ OpSplits(code, i, op) # {}

\* re.sub of one two-operand rule over the whole code, from position i on
RECURSIVE SubOp(_, _, _, _, _, _)
SubOp(code, i, op, open, mid, close) ==
  IF i > Len(code) THEN << >>
  ELSE IF MatchesOp(code, i, op)
    THEN LET j == Leftmost(OpSplits(code, i, op))
             e == LazyLast(code, j + 1)
         IN <<open>> \o SubSeq(code, i + 1, j - 1) \o <<mid>> \o SubSeq(code, j + 1, e)
              \o <<close>> \o SubOp(code, TailEnd(code, e), op, open, mid, close)
    ELSE <<code[i]>> \o SubOp(code, i + 1, op, open, mid, close)

\* re.sub of  assert\s+(.+?)(\s*#.*)?$  over the whole code
RECURSIVE SubTruthy(_, _)
SubTruthy(code, i) ==
  IF i > Len(code) THEN << >>
  ELSE IF StartsAssert(code, i)
    THEN LET e == LazyLast(code, i + 1)
         IN <<"if (!(">> \o SubSeq(code, i + 1, e) \o <<")) throw failed">>
              \o SubTruthy(code, TailEnd(code, e))
    ELSE <<code[i]>> \o SubTruthy(code, i + 1)

\* code.replace('solve', func_name), then True / False / None
Rename(code, func_name) ==
  [i \in 1..Len(code) |->
     CASE code[i] = "solve" -> func_name
       [] code[i] = "True" -> "true"
       [] code[i] = "False" -> "false"
       [] code[i] = "None" -> "null"
       [] OTHER -> code[i]]

\* '#' after white space, or at the start, becomes '//'
Comments(code) == [i \in 1..Len(code) |-> IF code[i] = "#" THEN "//" ELSE code[i]]

\* the == rule, the != rule, the rule for every other assert, in this order,
\* each applied to the text the previous one left
SubEq(code) == SubOp(code, 1, "==", "assertDeepEquals(", ",", ");")
SubNe(code) == SubOp(code, 1, "!=", "if (JSON.stringify(", ") === JSON.stringify(", ")) throw different")

\* _convert_python_to_ts on the tokens of the code
ConvertTokens(code, func_name) ==
  Comments(SubTruthy(SubNe(SubEq(Rename(code, func_name))), 1))

\* a test body is converted
Convert(code, func_name) ==
  /\ converted' = Some([code |-> code, func_name |-> func_name,
                        out |-> ConvertTokens(code, func_name)])
  /\ UNCHANGED <<coreVars, apiVars, workers, created,
                 synthesized, drafts, histfile, histlog, savers, access>>

NextConvert == \E code \in BodySamples, func_name \in FuncNames : Convert(code, func_name)

SpecConvert == Init /\ [][NextConvert]_vars

(* ----------------- harness synthesis, called repeatedly ---------------- *)

\* how many _create_test_file calls one behaviour holds
MaxSynthesized == 2

\* the Runner instances at hand; Runner and its subclasses define no
\* __init__ and no attribute
RunnerIds == {"r1", "r2"}

\* problems whose harnesses differ, and one whose signature names no function
SynthProblems == ConcProblems \cup {Problem(SigBare, TestOneBlock, GraceDs)}

\* variant: the answer depends on whether a harness was built before
CreateTestFileNumbered(path, problem, user_code) ==
  [HarnessOf([path |-> path, problem |-> problem]) EXCEPT !.ok = (Len(synthesized) = 0)]

\* self._create_test_file(problem, user_code) of the runner class at path:
\* user_code is a parameter neither implementation reads
CreateTestFile(path, problem, user_code) ==
  HarnessOf([path |-> path, problem |-> problem])

\* one call of _create_test_file on instance r; the log keeps what was asked
\* and what came back (the text, or the ValueError)
Synthesize(r, path, problem, user_code) ==
  /\ Len(synthesized) < MaxSynthesized
  /\ synthesized' = Append(synthesized,
                           [runner |-> r, path |-> path, problem |-> problem,
                            user_code |-> user_code,
                            harness |-> CreateTestFile(path, problem, user_code)])
  /\ UNCHANGED <<coreVars, apiVars, workers, created,
                 converted, drafts, histfile, histlog, savers, access>>

NextSynth ==
  \E r \in RunnerIds, path \in RunnerPaths, problem \in SynthProblems, user_code \in Codes :
    Synthesize(r, path, problem, user_code)

SpecSynth == Init /\ [][NextSynth]_vars

(* ------------------------------- drafts -------------------------------- *)

\* how many save_draft calls one behaviour holds
MaxSaves == 3

\* Python's  a or b  on an optional string: None and "" are falsy
StrOr(a, b) == IF a = None \/ a = Some("") THEN b ELSE The(a)

\* the user_id a request may carry (Optional[str] = None)
RequestUsers == {None, Some(""), Some("u1")}
\* problem and language of a request, after the endpoint's checks
DraftTargets == {<<"ct-001", "python">>, <<"ct-001", "typescript">>, <<"ct-002", "python">>}
DraftCodes == {"", "code_a"}

\* save_draft_api: the Draft handed to save_draft;
\* user_id=request.user_id or "anonymous", updated_at=datetime.now()
NewDraft(user, target, code, now) ==
  [user_id |-> StrOr(user, "anonymous"), problem_id |-> target[1],
   language |-> target[2], code |-> code, updated_at |-> now]

\* datetime.isoformat() and datetime.fromisoformat()
IsoFormat(t) == <<"iso", t>>
FromIsoFormat(text) == text[2]

\* save_draft: the JSON object written for one draft
DraftItem(d) ==
  [user_id |-> d.user_id, problem_id |-> d.problem_id, language |-> d.language,
   code |-> d.code, updated_at |-> IsoFormat(d.updated_at)]

\* load_all_drafts: the Draft built from one JSON object
LoadedDraft(item) ==
  [user_id |-> StrOr(Some(item.user_id), "anonymous"),
   problem_id |-> item.problem_id,
   language |-> item.language,
   code |-> StrOr(Some(item.code), ""),
   updated_at |-> FromIsoFormat(item.updated_at)]

\* load_all_drafts on a file save_draft wrote
LoadAllDrafts(file) == [i \in 1..Len(file) |-> LoadedDraft(file[i])]

SameDraftKey(d, user_id, problem_id, language) ==
  d.user_id = user_id /\ d.problem_id = problem_id /\ d.language = language

\* variant: a saved draft is always added at the end
UpsertAppend(all, draft) == Append(all, draft)

\* save_draft, the loop over the loaded drafts: every draft of the same
\* combination is replaced in place, and the draft is appended if none was
Upsert(all, draft) ==
  LET updated == [i \in 1..Len(all) |->
                    IF SameDraftKey(all[i], draft.user_id, draft.problem_id, draft.language)
                    THEN draft ELSE all[i]]
      replaced == \E i \in 1..Len(all) :
                    SameDraftKey(all[i], draft.user_id, draft.problem_id, draft.language)
  IN IF replaced THEN updated ELSE Append(updated, draft)

\* save_draft: the file after the call
SavedFile(file, draft) ==
  LET updated == Upsert(LoadAllDrafts(file), draft)
  IN [i \in 1..Len(updated) |-> DraftItem(updated[i])]

\* get_draft: the first loaded draft of the combination, or None
GetDraftFrom(file, user_id, problem_id, language) ==
  LET all == LoadAllDrafts(file)
      hits == {i \in 1..Len(all) : SameDraftKey(all[i], user_id, problem_id, language)}
  IN IF hits = {} THEN None
     ELSE Some(all[CHOOSE i \in hits : \A j \in hits : i <= j])

\* POST /api/drafts/save -> save_draft(draft)
SaveDraft(user, target, code) ==
  /\ Len(drafts.saved) < MaxSaves
  /\ LET draft == NewDraft(user, target, code, Len(drafts.saved) + 1)
     IN drafts' = [file |-> SavedFile(drafts.file, draft),
                   saved |-> Append(drafts.saved, draft),
                   got |-> None]
  /\ UNCHANGED <<coreVars, apiVars, workers, created,
                 converted, synthesized, histfile, histlog, savers, access>>

\* GET /api/drafts/{problem_id} -> get_draft(user_id=user_id or "anonymous", ...)
GetDraft(user, target) ==
  /\ drafts' = [drafts EXCEPT !.got =
                  Some([user_id |-> StrOr(user, "anonymous"), problem_id |-> target[1],
                        language |-> target[2],
                        draft |-> GetDraftFrom(drafts.file, StrOr(user, "anonymous"),
                                               target[1], target[2])])]
  /\ UNCHANGED <<coreVars, apiVars, workers, created,
                 converted, synthesized, histfile, histlog, savers, access>>

NextDrafts ==
  \/ \E user \in RequestUsers, target \in DraftTargets, code \in DraftCodes :
       SaveDraft(user, target, code)
  \/ \E user \in RequestUsers, target \in DraftTargets : GetDraft(user, target)

SpecDrafts == Init /\ [][NextDrafts]_vars

(* --------------------------- history files ----------------------------- *)

\* how many save_execution / save_submission calls one behaviour holds
MaxRecords == 3

\* load_all_executions / load_all_submissions: the records of the file, or
\* [] when json.loads or a record's construction raises
LoadAll(file) == IF file.parsable THEN file.records ELSE << >>

Saver(w) == savers[w]

\* save_execution / save_submission up to history.append: the file is read
\* and the new record added to the list in memory
SaveLoad(w, f) ==
  /\ Saver(w).pc = "idle"
  /\ histlog.started < MaxRecords
  /\ savers' = [savers EXCEPT ![w] =
                  [pc |-> "loaded", file |-> f, record |-> histlog.started + 1,
                   history |-> Append(LoadAll(histfile[f]), histlog.started + 1)]]
  /\ histlog' = [histlog EXCEPT
                   !.started = @ + 1,
                   !.overlapped = @ \/ \E v \in Workers \ {w} : Saver(v).pc # "idle"]
  /\ UNCHANGED <<coreVars, apiVars, workers, created,
                 converted, synthesized, drafts, histfile, access>>

\* write_text(json.dumps(data)): the file is replaced by the list in memory
\* and the save returns
SaveWrite(w) ==
  /\ Saver(w).pc = "loaded"
  /\ histfile' = [histfile EXCEPT ![Saver(w).file] =
                    [parsable |-> TRUE, records |-> Saver(w).history]]
  /\ histlog' = [histlog EXCEPT !.returned = @ \cup {<<Saver(w).file, Saver(w).record>>}]
  /\ savers' = [savers EXCEPT ![w] = IdleWorker]
  /\ UNCHANGED <<coreVars, apiVars, workers, created,
                 converted, synthesized, drafts, access>>

\* between two saves the text of a file is damaged (a write_text cut short
\* by a crash or a full disk, an edit by hand): its records are still in the
\* text but json.loads raises on it
Damage(f) ==
  /\ \A w \in Workers : Saver(w).pc = "idle"
  /\ histfile[f].parsable
  /\ histfile[f].records # << >>
  /\ histfile' = [histfile EXCEPT ![f].parsable = FALSE]
  /\ histlog' = [histlog EXCEPT !.damaged = TRUE]
  /\ UNCHANGED <<coreVars, apiVars, workers, created,
                 converted, synthesized, drafts, savers, access>>

NextHistory ==
  \/ \E w \in Workers, f \in HistFiles : SaveLoad(w, f)
  \/ \E w \in Workers : SaveWrite(w)
  \/ \E f \in HistFiles : Damage(f)

SpecHistory == Init /\ [][NextHistory]_vars

(* ---------------------------- course access ---------------------------- *)

\* SubscriptionStatus
SubscriptionStatuses == {"free", "trial", "paid"}

\* points on the clock for trial_ends_at and datetime.utcnow()
Instants == {1, 2, 3}

\* users: a subscription status and a nullable trial_ends_at
Users ==
  {[subscription_status |-> st, trial_ends_at |-> te] :
     st \in SubscriptionStatuses, te \in {None} \cup {Some(t) : t \in Instants \ {3}}}

\* the courses table: every combination of is_active and is_free
Courses ==
  {[id |-> 1, is_active |-> TRUE, is_free |-> TRUE],
   [id |-> 2, is_active |-> TRUE, is_free |-> FALSE],
   [id |-> 3, is_active |-> FALSE, is_free |-> TRUE],
   [id |-> 4, is_active |-> FALSE, is_free |-> FALSE]}

\* user.trial_ends_at and datetime.utcnow() > user.trial_ends_at
TrialExpired(user, now) ==
  user.trial_ends_at # None /\ now > The(user.trial_ends_at)

\* check_course_access(user, course, db)
CheckCourseAccess(user, course, now) ==
  IF user.subscription_status = "paid" THEN TRUE
  ELSE IF user.subscription_status = "trial" /\ ~TrialExpired(user, now) THEN TRUE
  ELSE IF user.subscription_status = "free" THEN course.is_free
  ELSE FALSE

\* get_user_accessible_courses(user, db), as a set of course ids
GetUserAccessibleCourses(user, now) ==
  IF user.subscription_status = "paid"
    THEN {c.id : c \in {c \in Courses : c.is_active}}
  ELSE IF user.subscription_status = "trial" /\ ~TrialExpired(user, now)
    THEN {c.id : c \in {c \in Courses : c.is_active}}
  ELSE {c.id : c \in {c \in Courses : c.is_active /\ c.is_free}}

\* both functions are asked about the same user at the same instant
AskAccess(user, course, now) ==
  /\ access' = Some([user |-> user, course |-> course, now |-> now,
                     check_course_access |-> CheckCourseAccess(user, course, now),
                     accessible |-> GetUserAccessibleCourses(user, now)])
  /\ UNCHANGED <<coreVars, apiVars, workers, created,
                 converted, synthesized, drafts, histfile, histlog, savers>>

NextAccess == \E user \in Users, course \in Courses, now \in Instants : AskAccess(user, course, now)

SpecAccess == Init /\ [][NextAccess]_vars

(* ------------------------------- claims -------------------------------- *)

Finished == pc \in {"returned", "raised"}
TestMode == call.path \in RunnerPaths
ScriptMode == call.path \in ScriptPaths
Res == The(result)

\* C1: execute never lets an exception reach its caller: every call that
\* has ended, ended by returning a result, also when harness synthesis failed.
C1_ExecuteNeverRaises ==
  Finished /\ TestMode => raised = None /\ result # None

\* C2: a workspace directory exists only while the call that created it is
\* in progress: during the call exactly its own directory exists, and once
\* the call has ended (by a return or by an exception) no directory or file
\* of it is left.
C2_WorkspaceOnlyDuringCall ==
  /\ InProgress => DOMAIN dirs = {tmpdir}
  /\ ~InProgress => DOMAIN dirs = {}

\* a call ended by an exception raised in harness synthesis, after the
\* submission was written into the workspace, and nothing is left
C2_Witness ==
  pc = "raised" /\ raised # None /\ tmpdir = nCalls /\ tmpdir \notin DOMAIN dirs

\* C3: in test mode, failure is reported only when the harness ran to
\* completion and at least one case did not pass; when the tests could not
\* be run at all the result is error.
C3_FailureOnlyWhenACaseFailed ==
  Finished /\ TestMode /\ result # None /\ child.state = "exited" =>
    /\ StatusOf(Res) = "failure" =>
         child.proc.started /\ \E i \in DOMAIN child.proc.ran : ~child.proc.ran[i]
    /\ ~child.proc.started => StatusOf(Res) = "error"

\* C4: a timeout result has null stdout, stderr and test output, and its
\* error message names the limit the caller configured, not the timeout
\* handed to subprocess.run.
C4_TimeoutResultShape ==
  result # None /\ StatusOf(Res) = "timeout" =>
    /\ Get(Res, "stdout") = None
    /\ Get(Res, "stderr") = None
    /\ Get(Res, "test_output") = None
    /\ Get(Res, "error_message") = Some(TimeoutMsg(Limit(call)))

\* a test-mode timeout, where the kill deadline differs from the limit
C4_Witness ==
  /\ pc = "returned" /\ TestMode /\ child.state = "killed"
  /\ StatusOf(Res) = "timeout"
  /\ child.timeout # Limit(call)

\* C5 (as claimed): every success or failure result carries the exit code.
C5_ExitCodePresent ==
  result # None /\ StatusOf(Res) \in {"success", "failure"} =>
    Get(Res, "exit_code") # None

\* C5 (amended): a script-mode result with status success or failure
\* carries the exit code of its child; a test-mode result has no exit code.
C5_ScriptExitCodePresent ==
  result # None =>
    /\ ScriptMode /\ StatusOf(Res) \in {"success", "failure"} =>
         Get(Res, "exit_code") = Some(child.proc.returncode)
    /\ TestMode => Get(Res, "exit_code") = None

\* a script run that ended with exit code 0
C5_Witness ==
  /\ pc = "returned" /\ ScriptMode /\ child.state = "exited"
  /\ StatusOf(Res) = "success" /\ Get(Res, "exit_code") = Some(0)

NoEntryPoint(c) ==
  /\ c.problem # NullProblem
  /\ \/ c.path = "PythonRunner" /\ PyName(c.problem.function_signature) = Null
     \/ c.path = "TypeScriptRunner" /\ TsName(c.problem.function_signature) = Null

\* C6: for a signature with no extractable entry-point name, execute returns
\* status error with the harness-generation message, in both runners.
C6_MalformedSignatureIsHarnessError ==
  Finished /\ TestMode /\ NoEntryPoint(call) =>
    /\ result # None
    /\ StatusOf(Res) = "error"
    /\ \E m \in Get(Res, "error_message") : m.text = "test_code_generation_error"

NoTestContent(tc) == \A i \in 1..Len(tc) : tc[i].kind \notin {"marker", "assert"}

\* C7: when the test code holds no test-definition block and no assertion
\* line the test-mode result is error; a harness with zero test cases is
\* never reported as success.
C7_NoTestContentIsError ==
  Finished /\ TestMode /\ result # None /\ call.problem # NullProblem
    /\ NoTestContent(call.problem.test_code) =>
    StatusOf(Res) = "error"

CasesOf(c) ==
  IF c.path = "PythonRunner" THEN PytestCollect(c.problem.test_code)
  ELSE ExtractTestFunctions(c.problem.test_code)

AllPassed(ran) == \A i \in DOMAIN ran : ran[i]

\* every case that ran has its pass/fail line in the captured output
LinePerCase(c, proc) ==
  \A i \in DOMAIN proc.ran :
    \E k \in DOMAIN (proc.stdout \o proc.stderr) :
      (proc.stdout \o proc.stderr)[k] =
        (IF proc.ran[i] THEN PassLine(CasesOf(c)[i].name) ELSE FailLine(CasesOf(c)[i].name))

DriverRan == Finished /\ TestMode /\ child.state = "exited" /\ child.proc.started

\* C8 (as claimed): in both runners the driver runs every case even after a
\* failure, reports a line per case, and exits 0 only if every case passed.
C8_EveryCaseRuns ==
  DriverRan =>
    /\ Len(child.proc.ran) = Len(CasesOf(call))
    /\ LinePerCase(call, child.proc)
    /\ child.proc.returncode = 0 => AllPassed(child.proc.ran)

\* C8 (amended): the driver generated by the TypeScript runner runs every
\* case even after a failure; pytest, run with -x by the Python runner, runs
\* the cases up to and including the first failing one.  Both report a line
\* for each case that ran and exit 0 only if every case passed.
C8_EveryCaseRunsUnlessPytestStops ==
  DriverRan =>
    /\ call.path = "TypeScriptRunner" => Len(child.proc.ran) = Len(CasesOf(call))
    /\ call.path = "PythonRunner" =>
         /\ Len(child.proc.ran) <= Len(CasesOf(call))
         /\ \A i \in DOMAIN child.proc.ran : ~child.proc.ran[i] => i = Len(child.proc.ran)
         /\ AllPassed(child.proc.ran) => Len(child.proc.ran) = Len(CasesOf(call))
    /\ LinePerCase(call, child.proc)
    /\ child.proc.returncode = 0 =>
         AllPassed(child.proc.ran) /\ Len(child.proc.ran) = Len(CasesOf(call))

\* the TypeScript driver ran a second case after the first one failed
C8_Witness ==
  /\ DriverRan /\ call.path = "TypeScriptRunner"
  /\ Len(child.proc.ran) = 2 /\ ~child.proc.ran[1] /\ child.proc.ran[2]
  /\ child.proc.returncode # 0

InstallMessages == {TsxMissingMsg, NpxMissingMsg}

\* C9: in every invoker a missing toolchain executable gives status error
\* with the install-the-runtime message, which no other spawn failure gets.
C9_ToolchainMissingIsDistinct ==
  pc = "returned" /\ child.state = "not_spawned" =>
    /\ StatusOf(Res) = "error"
    /\ child.error = "FileNotFoundError" => Get(Res, "error_message") \subseteq InstallMessages
    /\ child.error # "FileNotFoundError" => Get(Res, "error_message") \cap InstallMessages = {}

\* C10 (as claimed): a child that does not end by itself is killed and the
\* result is timeout, with kill deadline d and limit L : L <= d <= L + 1 s.
C10_KillDeadlineWithinGrace ==
  child.state = "killed" =>
    /\ pc = "returned" /\ StatusOf(Res) = "timeout"
    /\ Limit(call) <= child.timeout
    /\ child.timeout <= Limit(call) + GraceDs

\* C10 (amended): a child that does not end by itself is killed and the
\* result is timeout; the kill deadline is L + 1 s in the test-mode runners
\* and max(0.1 s, L) in script mode, so L <= d <= L + 1 s whenever
\* L >= -0.9 s, and d is the 0.1 s floor for a smaller L.
C10_KillDeadline ==
  child.state = "killed" =>
    /\ pc = "returned" /\ StatusOf(Res) = "timeout"
    /\ TestMode => child.timeout = Limit(call) + GraceDs
    /\ ScriptMode /\ Limit(call) >= MinTimeoutDs => child.timeout = Limit(call)
    /\ ScriptMode /\ Limit(call) < MinTimeoutDs => child.timeout = MinTimeoutDs
    /\ Limit(call) >= MinTimeoutDs - GraceDs =>
         Limit(call) <= child.timeout /\ child.timeout <= Limit(call) + GraceDs

\* a script-mode child killed at the 0.1 s floor, above its configured limit
C10_Witness ==
  /\ child.state = "killed" /\ ScriptMode /\ StatusOf(Res) = "timeout"
  /\ Limit(call) < MinTimeoutDs /\ Limit(call) >= MinTimeoutDs - GraceDs
  /\ child.timeout = MinTimeoutDs

\* C11: in script mode a child that completed gives success exactly when
\* its exit code is 0 and error for every other exit code; script mode
\* never gives failure.
C11_ScriptStatusFromExitCode ==
  ScriptMode /\ result # None =>
    /\ StatusOf(Res) # "failure"
    /\ child.state = "exited" =>
         /\ StatusOf(Res) = "success" <=> child.proc.returncode = 0
         /\ child.proc.returncode # 0 => StatusOf(Res) = "error"

\* a TypeScript script ended with a non-zero exit code
C11_Witness ==
  /\ pc = "returned" /\ call.path = "run_typescript_script" /\ child.state = "exited"
  /\ child.proc.returncode # 0 /\ StatusOf(Res) = "error"

HarnessFile(path) == IF path = "PythonRunner" THEN "test_solution.py" ELSE "test.ts"
SubmissionFile(path) == IF path = "PythonRunner" THEN "solution.py" ELSE "solution.ts"
ChildSpawned == child.state \in {"running", "exited", "killed"}
InSeq(x, sq) == \E i \in DOMAIN sq : sq[i] = x

\* C12 (as claimed): with mode "script", execute does not read the problem
\* (which may be null): no harness is synthesized, no exception comes from
\* the problem, and the child runs the submitted code itself.
C12_ScriptModeSkipsHarness ==
  TestMode /\ call.mode = "script" =>
    /\ raised = None
    /\ InProgress => HarnessFile(call.path) \notin DOMAIN dirs[tmpdir]
    /\ ChildSpawned => InSeq(SubmissionFile(call.path), child.cmd)

\* C12 (amended): execute ignores its mode argument: whatever the mode, it
\* reads the problem, writes the harness synthesized from it and runs the
\* harness, never the submission alone; with a null problem no child is
\* spawned (PythonRunner raises, TypeScriptRunner returns status error).
C12_ModeIgnored ==
  TestMode =>
    /\ pc \in {"ready", "running"} =>
         /\ call.problem # NullProblem
         /\ HarnessFile(call.path) \in DOMAIN dirs[tmpdir]
         /\ dirs[tmpdir][HarnessFile(call.path)] =
              (IF call.path = "PythonRunner" THEN PyCreateTestFile(call.problem).content
               ELSE TsCreateTestFile(call.problem).content)
    /\ ChildSpawned =>
         /\ InSeq(HarnessFile(call.path), child.cmd)
         /\ ~InSeq(SubmissionFile(call.path), child.cmd)
    /\ Finished /\ call.problem = NullProblem =>
         /\ child.state = "none"
         /\ call.path = "PythonRunner" => raised = Some(NullProblemError)
         /\ call.path = "TypeScriptRunner" =>
              result # None /\ StatusOf(Res) = "error"
              /\ Get(Res, "error_message") = Some(HarnessGenMsg(NullProblemError))

\* a call with mode "script" whose child is running the harness
C12_Witness ==
  /\ TestMode /\ call.mode = "script" /\ pc = "running"
  /\ InSeq(HarnessFile(call.path), child.cmd)


\* the supported declaration forms: def name, function name, export
\* function name, const name
DeclarationForm(sig) ==
  /\ Len(sig) >= 2
  /\ \/ sig[1] \in {"def", "function", "const"}
     \/ Len(sig) >= 3 /\ sig[1] = "export" /\ sig[2] = "function"

\* the function name the signature declares
DeclaredName(sig) == IF sig[1] = "export" THEN sig[3] ELSE sig[2]

\* C19: for a signature in a supported declaration form, the name that the
\* synthesized harness imports is the function name the signature
\* declares, in both runners and whatever the parameters are called.
C19_HarnessImportsDeclaredName ==
  (TestMode /\ pc \in {"ready", "running"}
     /\ DeclarationForm(call.problem.function_signature))
    => dirs[tmpdir][HarnessFile(call.path)].imports
         = DeclaredName(call.problem.function_signature)


\* the test cases the blocks of a test code stand for: one per marker, in
\* order, its body the non-blank lines up to the first line indented at or
\* below the marker; keepEmpty says whether a block with no body line counts
RECURSIVE ClaimedBlocks(_, _, _)
ClaimedBlocks(tc, i, keepEmpty) ==
  IF i > Len(tc) THEN << >>
  ELSE IF ~(HasMarker(tc[i]) /\ tc[i].name # Null) THEN ClaimedBlocks(tc, i + 1, keepEmpty)
  ELSE LET ends == {j \in (i + 1)..Len(tc) :
                      tc[j].kind # "blank" /\ tc[j].indent <= tc[i].indent}
           e == IF ends = {} THEN Len(tc) + 1 ELSE Leftmost(ends)
           body == SelectSeq(SubSeq(tc, i + 1, e - 1), LAMBDA l : l.kind # "blank")
       IN (IF body = << >> /\ ~keepEmpty THEN << >>
           ELSE <<[name |-> tc[i].name, body |-> ConvertPythonToTs(Dedent(body))]>>)
            \o ClaimedBlocks(tc, e, keepEmpty)

\* the named cases of a written harness
NamedCases(tests) == SelectSeq(tests, LAMBDA t : t.name # "global_test")

TsHarnessWritten ==
  /\ TestMode
  /\ call.path = "TypeScriptRunner"
  /\ pc \in {"ready", "running"}

\* C21: the harness written by the TypeScript runner holds exactly one test
\* case for each test-definition block of the test code, in source order
\* and under the block's name, its body the non-blank lines that follow the
\* marker up to the first line indented at or below the marker; one rule
\* decides for every block, last or not, whether a block is emitted.
C21_OneCasePerBlock ==
  TsHarnessWritten =>
    \E keepEmpty \in BOOLEAN :
      NamedCases(dirs[tmpdir]["test.ts"].tests)
        = ClaimedBlocks(call.problem.test_code, 1, keepEmpty)

NoBlock(tc) == \A i \in 1..Len(tc) : ~(HasMarker(tc[i]) /\ tc[i].name # Null)
HasAssert(tc) == \E i \in 1..Len(tc) : tc[i].kind = "assert"

\* C23: when the test code holds no test-definition block but at least one
\* assertion line, the harness holds exactly one case, global_test, made of
\* the whole converted test body; when a block was emitted the harness
\* holds no global_test case.
C23_FallbackOnlyWithoutBlocks ==
  TsHarnessWritten =>
    LET tc == call.problem.test_code
        tests == dirs[tmpdir]["test.ts"].tests
    IN /\ (NoBlock(tc) /\ HasAssert(tc)) =>
            tests = <<[name |-> "global_test", body |-> ConvertPythonToTs(tc)]>>
       /\ NamedCases(tests) # << >> => NamedCases(tests) = tests

\* a harness written from bare assertions, holding the whole-body case
C23_Witness ==
  /\ TsHarnessWritten
  /\ NoBlock(call.problem.test_code)
  /\ HasAssert(call.problem.test_code)
  /\ Len(dirs[tmpdir]["test.ts"].tests) = 1

(* ------------------------- conversion claims ------------------------- *)

\* the lines of a code
RECURSIVE SplitLines(_)
SplitLines(code) ==
  IF \E k \in 1..Len(code) : code[k] = NL
    THEN LET k == Leftmost({q \in 1..Len(code) : code[q] = NL})
         IN <<SubSeq(code, 1, k - 1)>> \o SplitLines(SubSeq(code, k + 1, Len(code)))
    ELSE <<code>>

RECURSIVE JoinLines(_)
JoinLines(ls) ==
  IF Len(ls) = 1 THEN ls[1] ELSE ls[1] \o <<NL>> \o JoinLines(Tail(ls))

\* the expression of an assertion line: what stands between the assert and
\* the comment, if any
AssertedExpr(line) ==
  LET hashes == {k \in 2..Len(line) : line[k] = "#"}
  IN SubSeq(line, 2, IF hashes = {} THEN Len(line) ELSE Leftmost(hashes) - 1)

\* the one rule that the comparison operator of the expression selects
ClaimedLine(line) ==
  IF Len(line) >= 2 /\ line[1] = "assert"
    THEN LET e == AssertedExpr(line)
             ops == {k \in 2..(Len(e) - 1) : e[k] \in {"==", "!="}}
             k == Leftmost(ops)
         IN IF ops = {} THEN <<"if (!(">> \o e \o <<")) throw failed">>
            ELSE IF e[k] = "=="
              THEN <<"assertDeepEquals(">> \o SubSeq(e, 1, k - 1) \o <<",">>
                     \o SubSeq(e, k + 1, Len(e)) \o <<");">>
            ELSE <<"if (JSON.stringify(">> \o SubSeq(e, 1, k - 1)
                   \o <<") === JSON.stringify(">> \o SubSeq(e, k + 1, Len(e))
                   \o <<")) throw different">>
    ELSE Comments(line)

ClaimedConvert(code, func_name) ==
  LET ls == SplitLines(Rename(code, func_name))
  IN JoinLines([i \in 1..Len(ls) |-> ClaimedLine(ls[i])])

\* C22: every assertion line is rewritten by exactly one rule, the one its
\* comparison operator selects (== : deep equality check, != : throw when
\* the values serialize equal, otherwise : throw when falsy), with True,
\* False and None remapped, and the text a rule wrote is not rewritten by a
\* later rule.
C22_OneRulePerAssertion ==
  converted # None =>
    The(converted).out = ClaimedConvert(The(converted).code, The(converted).func_name)

\* how far a call has come
Rank(p) ==
  CASE p = "idle" -> 0
    [] p = "entered" -> 1
    [] p = "written" -> 2
    [] p = "ready" -> 3
    [] p = "running" -> 4
    [] OTHER -> 5

\* C24: within one call the steps only go forward, and the child changes
\* only when the one subprocess.run of the call starts it (or fails to) and
\* when that child ends or is killed: after a timeout, a non-zero exit or a
\* spawn failure the call returns and the command is not run again.
C24_AtMostOneChild ==
  [][nCalls' = nCalls =>
       /\ Rank(pc') > Rank(pc)
       /\ child' # child =>
            \/ child.state = "none" /\ child'.state \in {"running", "not_spawned"}
            \/ child.state = "running" /\ child'.state \in {"exited", "killed"}
                 /\ pc' = "returned"]_vars

\* a call has returned its timeout result and its child was killed
C24_Witness ==
  /\ Finished
  /\ child.state = "killed"
  /\ result # None
  /\ StatusOf(Res) = "timeout"

(* ---------------------------- API claims ----------------------------- *)

\* the language a client means by an identifier, whatever its case and
\* surrounding white space; Null when it names none
Meant(l) ==
  IF l.base = "ts" THEN "typescript"
  ELSE IF l.base \in LanguageEnum THEN l.base ELSE Null

\* the problem does not list the language (a problem that lists nothing is
\* a Python problem)
ProblemLacks(entry, lang) ==
  IF entry.supported_languages = {} THEN lang # "python"
  ELSE lang \notin entry.supported_languages

\* the request must be refused for its language
BadLanguage(req) ==
  \/ Meant(req.language) = Null
  \/ /\ req.problem_id # None
     /\ The(req.problem_id) \in CatalogIds
     /\ ProblemLacks(Catalog(The(req.problem_id)), Meant(req.language))

\* the event loop ran a handler and the handler raised its HTTPException
RefusalStep == pending /\ ~pending' /\ request' = None

\* C13: a request whose language identifier names no configured language,
\* or whose problem does not support the language, never gets past
\* validation, and the step that refuses a request creates no workspace,
\* spawns no child and writes no history record, on the script-run path and
\* on the test-submit path.
C13_RefusedBeforeAnyWork ==
  /\ [](request # None => ~BadLanguage(The(request).request))
  /\ [][RefusalStep =>
          /\ response' # None
          /\ The(response').code \in {400, 404}
          /\ UNCHANGED <<pc, call, dirs, tmpdir, child, result, raised, nCalls,
                         executions, submissions>>]_vars

C13_Witness ==
  /\ response # None
  /\ The(response).handler = "submit_code"
  /\ The(response).detail = "language_not_supported_by_problem"
  /\ nCalls = 1
  /\ Len(executions) = 1
  /\ submissions = << >>
  /\ ~InProgress

\* C14: on the script-run path and on the test-submit path, an identifier
\* that spells python, typescript or the alias ts in any letter case is
\* accepted as a language: no request is refused as naming an unsupported
\* language unless its identifier spells none of the three (or carries
\* white space).
C14_AliasAndCaseAccepted ==
  (response # None /\ The(response).detail = "unsupported_language")
    => (The(response).language.padded \/ Meant(The(response).language) = Null)

\* the limit the request asks for: its override when it carries one, else
\* the limit of the problem it names, else the default
AskedLimit(req) ==
  IF req.time_limit_sec # None THEN The(req.time_limit_sec)
  ELSE IF req.problem_id # None THEN Catalog(The(req.problem_id)).problem.time_limit_sec
  ELSE DefaultLimitDs

\* C15: the time limit handed to the script executor is the override of the
\* request whenever the request carries one, else the limit of the problem
\* it names, else the default of 2.0 seconds.
C15_OverrideWins ==
  (Handling("run_code") /\ InProgress)
    => call.time_limit_sec = AskedLimit(The(request).request)

\* C17: while a request waits on its child process, a request that has
\* arrived at the server can be taken up: some handler can start on it.
C17_WaitingDoesNotBlock ==
  (request # None /\ pc = "running" /\ pending)
    => ENABLED (\/ \E req \in RunRequests : RunCode(req)
                \/ \E req \in SubmitRequests : SubmitCode(req))

\* C18: every request that passed validation and whose handling has ended
\* left exactly one record in the history store (an execution for a script
\* run, a submission for a test submission).
C18_OneRecordPerValidatedRequest ==
  LoopFree => Len(executions) + Len(submissions) = nCalls

(* -------------------------- factory claims --------------------------- *)

\* C20: create_runner returns a PythonRunner for python and a
\* TypeScriptRunner for typescript and fails with the unsupported-language
\* error for every other identifier; the runners returned by different
\* calls are different objects with no field in common; and the calls
\* leave every other part of the state as it was.
C20_CreateRunnerIsPureMapping ==
  /\ \A i \in DOMAIN created :
       /\ created[i].language = "python" =>
            created[i].ok /\ created[i].runner.class = "PythonRunner"
       /\ created[i].language = "typescript" =>
            created[i].ok /\ created[i].runner.class = "TypeScriptRunner"
       /\ created[i].language \notin {"python", "typescript"} =>
            /\ ~created[i].ok
            /\ created[i].error = [exc |-> "ValueError", text |-> "unsupported_language"]
  /\ \A i, j \in DOMAIN created :
       (i # j /\ created[i].ok /\ created[j].ok) =>
         /\ created[i].runner.instance # created[j].runner.instance
         /\ created[i].runner.fields \cap created[j].runner.fields = {}
  /\ pc = "idle" /\ nCalls = 0 /\ DOMAIN dirs = {}
  /\ request = None /\ executions = << >> /\ submissions = << >>

\* python, typescript and an unknown identifier have all been asked for
C20_Witness ==
  /\ \E i, j \in DOMAIN created :
       /\ i # j
       /\ created[i].ok /\ created[i].runner.class = "PythonRunner"
       /\ created[j].ok /\ created[j].runner.class = "TypeScriptRunner"
  /\ \E i \in DOMAIN created : ~created[i].ok /\ created[i].language = "ts"

(* ------------------------ concurrency claims ------------------------- *)

\* the files of a request, as the request writes them
OwnFiles(req) ==
  [f \in FilesRead(req.path) |->
     IF f = SubmissionName(req.path) THEN req.code ELSE HarnessOf(req).content]

\* C16: whatever the interleaving of concurrent executions that write the
\* same file names, the child of each execution loads the files written by
\* its own request only, the output in its result is produced from them,
\* and executions in progress never work in the same directory.
C16_OwnFilesOnly ==
  /\ \A w \in Workers :
       /\ Worker(w).pc \in {"running", "done"} => Worker(w).loaded = OwnFiles(Worker(w).req)
       /\ Worker(w).pc = "done" => Worker(w).output = Ran(OwnFiles(Worker(w).req))
  /\ \A v, w \in Workers :
       (v # w /\ Worker(v).pc \in {"entered", "written", "ready", "running"}
              /\ Worker(w).pc \in {"entered", "written", "ready", "running"})
         => Worker(v).dir # Worker(w).dir

\* two executions of the same path with different code, both with their
\* files written and their directories alive, one child already loaded
C16_Witness ==
  /\ Worker("w1").pc = "running"
  /\ Worker("w2").pc = "ready"
  /\ Worker("w1").req.path = Worker("w2").req.path
  /\ Worker("w1").req.code # Worker("w2").req.code
  /\ Worker("w1").dir \in DOMAIN dirs
  /\ Worker("w2").dir \in DOMAIN dirs

\* C25: every result returned by PythonRunner.execute,
\* TypeScriptRunner.execute, run_python_script and run_typescript_script
\* carries as execution_time_sec the wall-clock time elapsed between the
\* start of the call and the point where the result is built, whatever the
\* outcome; it is never a fixed constant and never the padded limit.
C25_ReportsElapsedTime ==
  result # None =>
    /\ timing.execution_time_sec = Some(timing.elapsed)
    /\ timing.elapsed > 0

SameInputs(a, b) ==
  /\ a.path = b.path
  /\ a.problem.function_signature = b.problem.function_signature
  /\ a.problem.test_code = b.problem.test_code
  /\ a.user_code = b.user_code

LastSaved(user_id, problem_id, language) ==
  LET hits == {i \in 1..Len(drafts.saved) :
                 SameDraftKey(drafts.saved[i], user_id, problem_id, language)}
  IN IF hits = {} THEN None
     ELSE Some(drafts.saved[CHOOSE i \in hits : \A j \in hits : j <= i])

DraftUsers == {"", "anonymous", "u1"}

\* C27: after any sequence of save_draft calls on an empty store, the store
\* holds at most one draft for each (user_id, problem_id, language), and
\* get_draft answers for every combination with the draft most recently
\* saved for it (none if none was saved), so a save changes the answer for
\* no other combination.
C27_OneDraftPerCombination ==
  LET all == LoadAllDrafts(drafts.file)
  IN /\ \A i, j \in 1..Len(all) :
          SameDraftKey(all[i], all[j].user_id, all[j].problem_id, all[j].language) => i = j
     /\ \A u \in DraftUsers, t \in DraftTargets :
          GetDraftFrom(drafts.file, u, t[1], t[2]) = LastSaved(u, t[1], t[2])
     /\ drafts.got # None =>
          The(drafts.got).draft = LastSaved(The(drafts.got).user_id,
                                            The(drafts.got).problem_id,
                                            The(drafts.got).language)

\* a draft was saved, overwritten (with an empty code), and read back while
\* another combination holds its own draft
C27_Witness ==
  /\ Len(drafts.saved) = 3
  /\ Len(drafts.file) = 2
  /\ drafts.got # None
  /\ The(drafts.got).draft # None
  /\ The(The(drafts.got).draft).code = ""
  /\ The(The(drafts.got).draft).updated_at = 3

InFile(r) == \E i \in 1..Len(histfile[r[1]].records) : histfile[r[1]].records[i] = r[2]

\* C28: save_execution and save_submission only append: as long as saves
\* run one after the other, every record whose save returned is still in
\* its file after any later save, also when the file did not parse at the
\* time of that later save.
C28_SavesOnlyAppend ==
  ~histlog.overlapped => \A r \in histlog.returned : InFile(r)

\* C29: whatever the interleaving of concurrent save_execution and
\* save_submission calls on intact files, once all of them returned, the
\* files hold every record that was saved.
C29_NoRecordLostToConcurrency ==
  (~histlog.damaged /\ \A w \in Workers : Saver(w).pc = "idle")
    => \A r \in histlog.returned : InFile(r)

\* C30: for every user state (free, trial running, trial expired, paid)
\* and every active course, check_course_access answers true exactly when
\* the course id is among get_user_accessible_courses; a user whose trial
\* has expired is treated as free by both.
C30_CheckAgreesWithListing ==
  (access # None /\ The(access).course.is_active) =>
    (The(access).check_course_access <=> The(access).course.id \in The(access).accessible)

====
